---- MODULE Spec2Model ----
(***************************************************************************)
(* Model of the two chat views of ResearchAgent-Scrapp:                     *)
(*   view "A"  src/frontend/src/App.jsx  (welcome screen, suggestion chips, *)
(*             PubMed card renderer)                                        *)
(*   view "B"  src/unnamed/part_000      (plain chat view)                  *)
(* Text is a sequence of one-character strings, so that trim, the regular   *)
(* expressions and JSON.parse are computed character by character.          *)
(* Error banners are TLA+ strings.                                          *)
(***************************************************************************)
EXTENDS Integers, Sequences, FiniteSets, TLC

VARIABLES
    view,       \* which component is mounted: "A" or "B"
    messages,   \* useState messages
    input,      \* useState input
    loading,    \* useState loading
    error,      \* useState error
    pending,    \* send invocations suspended at an await, each with its closure:
                \* phase "fetch" at `await fetch`, "json" at `await resp.json()`
    nreq,       \* number of fetch calls issued so far
    lastMut,    \* id of the send invocation that last wrote `messages` (0: none)
    event,      \* the handler that ran last, with its argument and outcome
    content,    \* MessageContent prop: the content being rendered
    pubmed,     \* MessageContent: const pubmed = tryParsePubMed(content)
    rendered    \* what MessageContent returned, or that it threw

vars == <<view, messages, input, loading, error, pending, nreq, lastMut, event,
          content, pubmed, rendered>>

ctlVars == <<view, messages, input, loading, error, pending, nreq, lastMut, event>>
rndVars == <<content, pubmed, rendered>>

-----------------------------------------------------------------------------
(* Bounds *)

\* accepted sends per behaviour
MaxSends == 3
\* longest message list a server response carries
MaxList == 2
\* pieces a rendered content is made of
MaxSegs == 3

-----------------------------------------------------------------------------
(* Text helpers *)

\* A character that has no TLA+ string of its own is the token "U+" followed by
\* its four hexadecimal digits in upper case.

\* whitespace of JSON: space, line feed, tab, carriage return
JsonWS == {" ", "\n", "\t", "\r"}

\* characters String.prototype.trim and \s remove: WhiteSpace and LineTerminator
WS == JsonWS \cup
      { "\f", "U+000B", "U+00A0", "U+1680", "U+2000", "U+2001", "U+2002", "U+2003",
        "U+2004", "U+2005", "U+2006", "U+2007", "U+2008", "U+2009", "U+200A",
        "U+2028", "U+2029", "U+202F", "U+205F", "U+3000", "U+FEFF" }

RECURSIVE TrimStart(_)
TrimStart(s) ==
    IF s # <<>> /\ Head(s) \in WS THEN TrimStart(Tail(s)) ELSE s

RECURSIVE TrimEnd(_)
TrimEnd(s) ==
    IF s # <<>> /\ s[Len(s)] \in WS THEN TrimEnd(SubSeq(s, 1, Len(s) - 1)) ELSE s

\* the grave accent character U+0060, which a TLA+ string literal cannot hold on
\* its own: three of them make a fence
Backtick == "U+0060"

\* String.prototype.trim
Trim(s) == TrimEnd(TrimStart(s))

\* Array.prototype.slice(0, -1)
SliceDropLast(l) == IF l = <<>> THEN <<>> ELSE SubSeq(l, 1, Len(l) - 1)

-----------------------------------------------------------------------------
(* Constants of the program *)

S1 == <<"F","i","n","d"," ","P","u","b","M","e","d"," ","a","r","t","i","c","l","e","s"," ","o","n"," ","A","l","z","h","e","i","m","e","r","'","s"," ","a","n","d"," ","a","g","i","n","g">>
S2 == <<"S","e","a","r","c","h"," ","f","o","r"," ","s","t","u","d","i","e","s"," ","o","n"," ","d","i","a","b","e","t","e","s"," ","t","r","e","a","t","m","e","n","t"," ","2","0","2","0","-","2","0","2","4">>
S3 == <<"G","e","t"," ","r","e","s","e","a","r","c","h"," ","o","n"," ","m","a","c","h","i","n","e"," ","l","e","a","r","n","i","n","g"," ","i","n"," ","h","e","a","l","t","h","c","a","r","e">>
S4 == <<"P","a","p","e","r","s"," ","a","b","o","u","t"," ","C","O","V","I","D","-","1","9"," ","v","a","c","c","i","n","e"," ","e","f","f","i","c","a","c","y">>

SUGGESTIONS == {S1, S2, S3, S4}

\* content of the assistant message view B starts with
Greeting == <<"H","i","!"," ","A","s","k"," ","m","e"," ","a","n","y","t","h","i","n","g","."," ","I","f"," ","y","o","u"," ","a","s","k"," ","f","o","r"," ","P","u","b","M","e","d"," ","r","e","s","u","l","t","s",","," ","I"," ","w","i","l","l"," ","r","e","t","u","r","n"," ","J","S","O","N",".">>

InitMessages(v) ==
    IF v = "A" THEN <<>> ELSE <<[role |-> "assistant", content |-> Greeting]>>

-----------------------------------------------------------------------------
(* Inputs: what the user types and what the backend answers *)

\* values the textarea is set to
InputTexts == { <<>>, <<"U+00A0">>, <<"a">>, <<" ", "a", "\n">>, <<"b">> }

\* messages a server list is made of; "system" is a role other than user/assistant
ServerMsgs ==
    { [role |-> "user", content |-> <<"a">>],
      [role |-> "assistant", content |-> <<"r">>],
      [role |-> "system", content |-> <<"s">>] }

ServerLists == UNION { [1..n -> ServerMsgs] : n \in 0..MaxList }

Statuses == {200, 204, 404, 500}

\* resp.json(): "unparsable" rejects, "null" resolves to null, "object" resolves to
\* an object; hasMessages tells whether it has a `messages` list; message and
\* error are its `message` and `error` strings, "" when absent or empty; raw is
\* the text of an unparsable body
NoBody == [kind |-> "null", hasMessages |-> FALSE, messages |-> <<>>,
           message |-> "", error |-> "", raw |-> <<>>]

\* bodies that are not JSON: the empty body, and one whose first character
\* cannot start a JSON value
UnparsableRaws == { <<>>, <<"<", "h", "t", "m", "l", ">">> }

Bodies ==
    { [NoBody EXCEPT !.kind = "unparsable", !.raw = r] : r \in UnparsableRaws }
    \cup { NoBody }
    \cup { [NoBody EXCEPT !.kind = "object", !.message = m, !.error = e] :
               m \in {"", "bad request"}, e \in {"", "oops"} }
    \cup { [NoBody EXCEPT !.kind = "object", !.hasMessages = TRUE, !.messages = l] :
               l \in ServerLists }
    \cup { [NoBody EXCEPT !.kind = "object", !.hasMessages = TRUE, !.messages = l,
                          !.message = "bad request", !.error = "oops"] :
               l \in ServerLists \cap [1..1 -> ServerMsgs] }

\* outcome of the network call: fetch rejects, or a response arrives
NoResp == [type |-> "none", status |-> 0, body |-> NoBody]

Responses ==
    { [NoResp EXCEPT !.type = "reject"] }
    \cup { [type |-> "resp", status |-> s, body |-> b] : s \in Statuses, b \in Bodies }

\* messages of the errors the runtime throws
FetchErrorText == "Failed to fetch"
RECURSIVE Join(_)
Join(chars) == IF chars = <<>> THEN "" ELSE Head(chars) \o Join(Tail(chars))

\* the SyntaxError of resp.json() for a body of UnparsableRaws
JsonErrorText(raw) ==
    IF raw = <<>> THEN "Unexpected end of JSON input"
    ELSE "Unexpected token '" \o Head(raw) \o "', \"" \o Join(raw) \o "\" is not valid JSON"
NullErrorText == "Cannot read properties of null (reading 'messages')"

-----------------------------------------------------------------------------
(* send *)

NoArg == [isString |-> FALSE, text |-> <<>>]
StrArg(s) == [isString |-> TRUE, text |-> s]

\* the text send works on
EffectiveTextInputOnly(v, userText, inp) == Trim(inp)

EffectiveText(v, userText, inp) ==
    IF v = "A"
    THEN Trim(IF userText.isString THEN userText.text ELSE Trim(inp))
    ELSE Trim(inp)

\* `if (!text || loading) return` : TRUE when send goes on
SendGuardNoLoading(text, ld) == text # <<>>

SendGuardNoText(text, ld) == ~ld

SendGuard(text, ld) == ~(text = <<>> \/ ld)

IsChatRole(m) == m.role = "user" \/ m.role = "assistant"

\* nextMessages.filter((m) => m.role === 'user' || m.role === 'assistant')
FilterRolesNone(l) == l

FilterRoles(l) == SelectSeq(l, IsChatRole)

NoEvent == [kind |-> "none", arg |-> NoArg, accepted |-> FALSE, failed |-> FALSE,
            id |-> 0, resp |-> NoResp]

Send(kind, userText) ==
    LET text == EffectiveText(view, userText, input)
        nextMessages == Append(messages, [role |-> "user", content |-> text])
    IN  IF ~SendGuard(text, loading)
        THEN /\ event' = [NoEvent EXCEPT !.kind = kind, !.arg = userText]
             /\ UNCHANGED <<view, messages, input, loading, error, pending, nreq, lastMut>>
        ELSE /\ nreq < MaxSends
             /\ error' = ""
             /\ loading' = TRUE
             /\ messages' = nextMessages
             /\ input' = <<>>
             /\ nreq' = nreq + 1
             /\ pending' = pending \cup
                    { [id |-> nreq + 1, messages |-> messages,
                       nextMessages |-> nextMessages,
                       body |-> FilterRoles(nextMessages),
                       phase |-> "fetch", status |-> 0] }
             /\ lastMut' = nreq + 1
             /\ event' = [NoEvent EXCEPT !.kind = kind, !.arg = userText,
                                         !.accepted = TRUE, !.id = nreq + 1]
             /\ UNCHANGED view

-----------------------------------------------------------------------------
(* completion of the request *)

\* resp.ok
Ok(status) == status >= 200 /\ status <= 299

HttpText(status) == "HTTP " \o ToString(status)

\* data?.message || data?.error || `HTTP ${resp.status}`
ErrorOfBody(body, status) ==
    IF body.kind = "object" /\ body.message # "" THEN body.message
    ELSE IF body.kind = "object" /\ body.error # "" THEN body.error
    ELSE HttpText(status)

\* what the try block throws: "" when it completes
Thrown(resp) ==
    IF resp.type = "reject" THEN FetchErrorText
    ELSE IF resp.body.kind = "unparsable" THEN JsonErrorText(resp.body.raw)
    ELSE IF ~Ok(resp.status) THEN ErrorOfBody(resp.body, resp.status)
    ELSE IF resp.body.kind = "null" THEN NullErrorText
    ELSE ""

\* data.messages || nextMessages
Replace(body, nextMessages, cur) ==
    IF body.hasMessages THEN body.messages ELSE nextMessages

\* the catch block's write to messages
Rollback(v, cur) == IF v = "A" THEN SliceDropLast(cur) ELSE cur

\* finally { setLoading(false) } : the value of loading after completion
SettleLoadingTryOnly(failed) == failed

SettleLoading(failed) == FALSE

\* the rest of send once its last await is over: what is left of the try block,
\* then catch and finally
Settle(p, resp) ==
    LET thrown == Thrown(resp)
        failed == thrown # ""
    IN  /\ p \in pending
        /\ resp \in Responses
        /\ error' = IF failed THEN thrown ELSE error
        /\ messages' = IF failed THEN Rollback(view, messages)
                       ELSE Replace(resp.body, p.nextMessages, messages)
        /\ lastMut' = IF failed /\ view = "B" THEN lastMut ELSE p.id
        /\ loading' = SettleLoading(failed)
        /\ pending' = pending \ {p}
        /\ event' = [NoEvent EXCEPT !.kind = "settle", !.failed = failed,
                                    !.id = p.id, !.resp = resp]
        /\ UNCHANGED <<view, input, nreq>>

\* `await fetch(...)` rejects: send resumes in catch
FetchReject(p) ==
    /\ p \in pending
    /\ p.phase = "fetch"
    /\ Settle(p, [NoResp EXCEPT !.type = "reject"])

\* `await fetch(...)` resolves with a response of the given status: send resumes
\* and suspends again at `await resp.json()`
FetchResolve(p, status) ==
    /\ p \in pending
    /\ p.phase = "fetch"
    /\ pending' = (pending \ {p}) \cup {[p EXCEPT !.phase = "json", !.status = status]}
    /\ event' = [NoEvent EXCEPT !.kind = "fetched", !.id = p.id,
                                !.resp = [NoResp EXCEPT !.type = "resp", !.status = status]]
    /\ UNCHANGED <<view, messages, input, loading, error, nreq, lastMut>>

\* `await resp.json()` resolves or rejects: send resumes and runs to its end
BodyRead(p, body) ==
    /\ p \in pending
    /\ p.phase = "json"
    /\ Settle(p, [type |-> "resp", status |-> p.status, body |-> body])

-----------------------------------------------------------------------------
(* UI events *)

\* canSend
CanSend == Len(Trim(input)) > 0 /\ ~loading

\* showWelcome
ShowWelcome == Len(messages) = 0 /\ ~loading

\* the textarea of view A is disabled while loading
InputEnabled == view = "B" \/ ~loading

\* onChange: setInput(e.target.value)
Type(v) ==
    /\ InputEnabled
    /\ v # input
    /\ input' = v
    /\ event' = [NoEvent EXCEPT !.kind = "type"]
    /\ UNCHANGED <<view, messages, loading, error, pending, nreq, lastMut>>

\* onKeyDown with Enter and no Shift: send()
KeyEnter ==
    /\ InputEnabled
    /\ Send("enter", NoArg)

\* the send button, disabled unless canSend
ClickSend ==
    /\ CanSend
    /\ Send("click", NoArg)

\* a suggestion chip of the welcome screen: send(s)
ClickChip(s) ==
    /\ view = "A"
    /\ ShowWelcome
    /\ Send("chip", StrArg(s))

-----------------------------------------------------------------------------
(* JSON values and JSON.parse *)

\* a JavaScript value: k is its kind ("undefined", "null", "true", "false",
\* "num", "str", "arr", "obj"); s the characters of a string or of a number
\* literal; items the elements of an array or the member values of an object;
\* keys the member names of an object, in source order
JV(k) == [k |-> k, s |-> <<>>, items |-> <<>>, keys |-> <<>>]
Undefined == JV("undefined")
JStr(chars) == [JV("str") EXCEPT !.s = chars]
JNum(chars) == [JV("num") EXCEPT !.s = chars]
JArr(items) == [JV("arr") EXCEPT !.items = items]
JObj(keys, items) == [JV("obj") EXCEPT !.keys = keys, !.items = items]

Digits == {"0", "1", "2", "3", "4", "5", "6", "7", "8", "9"}

HexDigits == <<"0", "1", "2", "3", "4", "5", "6", "7", "8", "9", "A", "B", "C", "D", "E", "F">>
HexLower == <<"0", "1", "2", "3", "4", "5", "6", "7", "8", "9", "a", "b", "c", "d", "e", "f">>

IsHex(c) == \E v \in 1..16 : HexDigits[v] = c \/ HexLower[v] = c
HexVal(c) == (CHOOSE v \in 1..16 : HexDigits[v] = c \/ HexLower[v] = c) - 1

\* the characters U+0020 to U+007E, in order
Ascii == <<" ","!","\"","#","$","%","&","'","(",")","*","+",",","-",".","/","0","1","2","3","4","5","6","7","8","9",":",";","<","=",">","?","@","A","B","C","D","E","F","G","H","I","J","K","L","M","N","O","P","Q","R","S","T","U","V","W","X","Y","Z","[","\\","]","^","_",Backtick,"a","b","c","d","e","f","g","h","i","j","k","l","m","n","o","p","q","r","s","t","u","v","w","x","y","z","{","|","}","~">>

Hex4(code) ==
    HexDigits[(code \div 4096) + 1] \o HexDigits[((code \div 256) % 16) + 1]
        \o HexDigits[((code \div 16) % 16) + 1] \o HexDigits[(code % 16) + 1]

\* the character (UTF-16 code unit) with the given code
CharOfCode(code) ==
    IF code >= 32 /\ code <= 126 THEN Ascii[code - 31]
    ELSE IF code = 9 THEN "\t"
    ELSE IF code = 10 THEN "\n"
    ELSE IF code = 12 THEN "\f"
    ELSE IF code = 13 THEN "\r"
    ELSE "U+" \o Hex4(code)

\* U+0000 to U+001F, which a JSON string may not hold unescaped
ControlChars == { CharOfCode(c) : c \in 0..31 }

\* a parse step: whether it succeeded, the index after what it read, its value
PFail == [ok |-> FALSE, pos |-> 0, val |-> Undefined]
POk(pos, val) == [ok |-> TRUE, pos |-> pos, val |-> val]

At(s, i, c) == i <= Len(s) /\ s[i] = c

\* the first index from i on whose character is not in set; Len(s) + 1 if none
SkipChars(s, i, set) ==
    CHOOSE k \in i..(Len(s) + 1) :
        /\ k = Len(s) + 1 \/ s[k] \notin set
        /\ \A j \in i..(k - 1) : s[j] \in set

\* JSON.parse skips JSON whitespace
SkipWs(s, i) == SkipChars(s, i, JsonWS)

\* \s* of a regular expression
SkipReWs(s, i) == SkipChars(s, i, WS)

SkipDigits(s, i) == SkipChars(s, i, Digits)

\* s holds the characters of lit from index i on
StartsWith(s, i, lit) ==
    /\ i + Len(lit) - 1 <= Len(s)
    /\ \A k \in 1..Len(lit) : s[i + k - 1] = lit[k]

\* the characters of a string literal after its opening quote
RECURSIVE ScanString(_, _, _)
ScanString(s, j, acc) ==
    IF j > Len(s) THEN PFail
    ELSE IF s[j] = "\"" THEN POk(j + 1, JStr(acc))
    ELSE IF s[j] \in ControlChars THEN PFail
    ELSE IF s[j] = "\\" THEN
        IF j + 1 > Len(s) THEN PFail
        ELSE IF s[j + 1] \in {"\"", "\\", "/"} THEN ScanString(s, j + 2, Append(acc, s[j + 1]))
        ELSE IF s[j + 1] = "b" THEN ScanString(s, j + 2, Append(acc, CharOfCode(8)))
        ELSE IF s[j + 1] = "f" THEN ScanString(s, j + 2, Append(acc, "\f"))
        ELSE IF s[j + 1] = "n" THEN ScanString(s, j + 2, Append(acc, "\n"))
        ELSE IF s[j + 1] = "r" THEN ScanString(s, j + 2, Append(acc, "\r"))
        ELSE IF s[j + 1] = "t" THEN ScanString(s, j + 2, Append(acc, "\t"))
        ELSE IF s[j + 1] = "u" THEN
            IF j + 5 <= Len(s) /\ \A k \in 2..5 : IsHex(s[j + k])
            THEN ScanString(s, j + 6,
                     Append(acc, CharOfCode(4096 * HexVal(s[j + 2]) + 256 * HexVal(s[j + 3])
                                            + 16 * HexVal(s[j + 4]) + HexVal(s[j + 5]))))
            ELSE PFail
        ELSE PFail
    ELSE ScanString(s, j + 1, Append(acc, s[j]))

ParseString(s, i) == IF At(s, i, "\"") THEN ScanString(s, i + 1, <<>>) ELSE PFail

\* -? (0 | [1-9][0-9]*) (. [0-9]+)? ([eE] [+-]? [0-9]+)?
ParseNumber(s, i) ==
    LET j1 == IF At(s, i, "-") THEN i + 1 ELSE i
        j2 == IF At(s, j1, "0") THEN j1 + 1 ELSE SkipDigits(s, j1)
        f1 == j2 + 1
        j3 == IF At(s, j2, ".") THEN SkipDigits(s, f1) ELSE j2
        fracOk == At(s, j2, ".") => j3 > f1
        hasExp == At(s, j3, "e") \/ At(s, j3, "E")
        e1 == IF At(s, j3 + 1, "+") \/ At(s, j3 + 1, "-") THEN j3 + 2 ELSE j3 + 1
        j4 == IF hasExp THEN SkipDigits(s, e1) ELSE j3
        expOk == hasExp => j4 > e1
    IN  IF j2 > j1 /\ fracOk /\ expOk
        THEN POk(j4, JNum(SubSeq(s, i, j4 - 1)))
        ELSE PFail

RECURSIVE ParseValue(_, _)
RECURSIVE ParseItems(_, _, _)
RECURSIVE ParseMembers(_, _, _, _)

\* the elements of an array from index i on, after "[" or ","
ParseItems(s, i, acc) ==
    LET r == ParseValue(s, SkipWs(s, i))
        j == SkipWs(s, r.pos)
    IN  IF ~r.ok THEN PFail
        ELSE IF At(s, j, ",") THEN ParseItems(s, j + 1, Append(acc, r.val))
        ELSE IF At(s, j, "]") THEN POk(j + 1, JArr(Append(acc, r.val)))
        ELSE PFail

\* the members of an object from index i on, after "{" or ","
ParseMembers(s, i, keys, vals) ==
    LET k == ParseString(s, SkipWs(s, i))
        c == SkipWs(s, k.pos)
        r == ParseValue(s, SkipWs(s, c + 1))
        j == SkipWs(s, r.pos)
    IN  IF ~k.ok \/ ~At(s, c, ":") THEN PFail
        ELSE IF ~r.ok THEN PFail
        ELSE IF At(s, j, ",")
             THEN ParseMembers(s, j + 1, Append(keys, k.val.s), Append(vals, r.val))
        ELSE IF At(s, j, "}")
             THEN POk(j + 1, JObj(Append(keys, k.val.s), Append(vals, r.val)))
        ELSE PFail

\* one JSON value starting at index i
ParseValue(s, i) ==
    IF i > Len(s) THEN PFail
    ELSE IF s[i] = "{" THEN
        LET j == SkipWs(s, i + 1)
        IN  IF At(s, j, "}") THEN POk(j + 1, JObj(<<>>, <<>>))
            ELSE ParseMembers(s, i + 1, <<>>, <<>>)
    ELSE IF s[i] = "[" THEN
        LET j == SkipWs(s, i + 1)
        IN  IF At(s, j, "]") THEN POk(j + 1, JArr(<<>>))
            ELSE ParseItems(s, i + 1, <<>>)
    ELSE IF s[i] = "\"" THEN ParseString(s, i)
    ELSE IF StartsWith(s, i, <<"n", "u", "l", "l">>) THEN POk(i + 4, JV("null"))
    ELSE IF StartsWith(s, i, <<"t", "r", "u", "e">>) THEN POk(i + 4, JV("true"))
    ELSE IF StartsWith(s, i, <<"f", "a", "l", "s", "e">>) THEN POk(i + 5, JV("false"))
    ELSE IF s[i] = "-" \/ s[i] \in Digits THEN ParseNumber(s, i)
    ELSE PFail

\* JSON.parse(s): ok is FALSE when it throws
JsonParse(s) ==
    LET r == ParseValue(s, SkipWs(s, 1))
    IN  IF r.ok /\ SkipWs(s, r.pos) = Len(s) + 1 THEN r ELSE PFail

DigitVal(c) == HexVal(c)

\* the value of a run of at most six digits
RECURSIVE DecVal(_)
DecVal(d) == IF d = <<>> THEN 0 ELSE 10 * DecVal(SubSeq(d, 1, Len(d) - 1)) + DigitVal(d[Len(d)])

\* a <= b for two digit runs read as decimal fractions 0.a and 0.b
DigitsLeq(a, b) ==
    LET n == IF Len(a) > Len(b) THEN Len(a) ELSE Len(b)
        d(x, i) == IF i <= Len(x) THEN DigitVal(x[i]) ELSE 0
    IN  \A i \in 1..n : (\A j \in 1..(i - 1) : d(a, j) = d(b, j)) => d(a, i) <= d(b, i)

\* the digits of 2^-1075 = 0.24703...e-323, half the least positive double: a
\* literal whose value is at most this is rounded to 0
HalfMinDouble == <<"2","4","7","0","3","2","8","2","2","9","2","0","6","2","3","2","7","2","0","8","8","2","8","4","3","9","6","4","3","4","1","1","0","6","8","6","1","8","2","5","2","9","9","0","1","3","0","7","1","6","2","3","8","2","2","1","2","7","9","2","8","4","1","2","5","0","3","3","7","7","5","3","6","3","5","1","0","4","3","7","5","9","3","2","6","4","9","9","1","8","1","8","0","8","1","7","9","9","6","1","8","9","8","9","8","2","8","2","3","4","7","7","2","2","8","5","8","8","6","5","4","6","3","3","2","8","3","5","5","1","7","7","9","6","9","8","9","8","1","9","9","3","8","7","3","9","8","0","0","5","3","9","0","9","3","9","0","6","3","1","5","0","3","5","6","5","9","5","1","5","5","7","0","2","2","6","3","9","2","2","9","0","8","5","8","3","9","2","4","4","9","1","0","5","1","8","4","4","3","5","9","3","1","8","0","2","8","4","9","9","3","6","5","3","6","1","5","2","5","0","0","3","1","9","3","7","0","4","5","7","6","7","8","2","4","9","2","1","9","3","6","5","6","2","3","6","6","9","8","6","3","6","5","8","4","8","0","7","5","7","0","0","1","5","8","5","7","6","9","2","6","9","9","0","3","7","0","6","3","1","1","9","2","8","2","7","9","5","5","8","5","5","1","3","3","2","9","2","7","8","3","4","3","3","8","4","0","9","3","5","1","9","7","8","0","1","5","5","3","1","2","4","6","5","9","7","2","6","3","5","7","9","5","7","4","6","2","2","7","6","6","4","6","5","2","7","2","8","2","7","2","2","0","0","5","6","3","7","4","0","0","6","4","8","5","4","9","9","9","7","7","0","9","6","5","9","9","4","7","0","4","5","4","0","2","0","8","2","8","1","6","6","2","2","6","2","3","7","8","5","7","3","9","3","4","5","0","7","3","6","3","3","9","0","0","7","9","6","7","7","6","1","9","3","0","5","7","7","5","0","6","7","4","0","1","7","6","3","2","4","6","7","3","6","0","0","9","6","8","9","5","1","3","4","0","5","3","5","5","3","7","4","5","8","5","1","6","6","6","1","1","3","4","2","2","3","7","6","6","6","7","8","6","0","4","1","6","2","1","5","9","6","8","0","4","6","1","9","1","4","4","6","7","2","9","1","8","4","0","3","0","0","5","3","0","0","5","7","5","3","0","8","4","9","0","4","8","7","6","5","3","9","1","7","1","1","3","8","6","5","9","1","6","4","6","2","3","9","5","2","4","9","1","2","6","2","3","6","5","3","8","8","1","8","7","9","6","3","6","2","3","9","3","7","3","2","8","0","4","2","3","8","9","1","0","1","8","6","7","2","3","4","8","4","9","7","6","6","8","2","3","5","0","8","9","8","6","3","3","8","8","5","8","7","9","2","5","6","2","8","3","0","2","7","5","5","9","9","5","6","5","7","5","2","4","4","5","5","5","0","7","2","5","5","1","8","9","3","1","3","6","9","0","8","3","6","2","5","4","7","7","9","1","8","6","9","4","8","6","6","7","9","9","4","9","6","8","3","2","4","0","4","9","7","0","5","8","2","1","0","2","8","5","1","3","1","8","5","4","5","1","3","9","6","2","1","3","8","3","7","7","2","2","8","2","6","1","4","5","4","3","7","6","9","3","4","1","2","5","3","2","0","9","8","5","9","1","3","2","7","6","6","7","2","3","6","3","2","8","1","2","5">>

\* the double a number literal is rounded to is 0: its digits are all 0, or its
\* value is at most 2^-1075 (a literal is taken to have fewer than 10^6 characters)
IsZeroNum(t) ==
    LET body == IF t[1] = "-" THEN Tail(t) ELSE t
        ePos == SkipChars(body, 1, Digits \cup {"."})
        mantTxt == SubSeq(body, 1, ePos - 1)
        dot == SkipDigits(mantTxt, 1)
        int == SubSeq(mantTxt, 1, dot - 1)
        frac == IF dot < Len(mantTxt) THEN SubSeq(mantTxt, dot + 1, Len(mantTxt)) ELSE <<>>
        mant == int \o frac
        f == SkipChars(mant, 1, {"0"})
        expTxt == IF ePos < Len(body) THEN SubSeq(body, ePos + 1, Len(body)) ELSE <<>>
        neg == expTxt # <<>> /\ expTxt[1] = "-"
        expAll == IF expTxt # <<>> /\ expTxt[1] \in {"+", "-"} THEN Tail(expTxt) ELSE expTxt
        z == SkipChars(expAll, 1, {"0"})
        expDigits == IF z <= Len(expAll) THEN SubSeq(expAll, z, Len(expAll)) ELSE <<>>
        e10 == Len(int) - f + (IF neg THEN 0 - DecVal(expDigits) ELSE DecVal(expDigits))
    IN  IF f > Len(mant) THEN TRUE
        ELSE IF Len(expDigits) > 6 THEN neg
        ELSE e10 < 0 - 324
             \/ (e10 = 0 - 324 /\ DigitsLeq(SubSeq(mant, f, Len(mant)), HalfMinDouble))

\* JavaScript truthiness
Truthy(v) ==
    CASE v.k \in {"undefined", "null", "false"} -> FALSE
      [] v.k = "num" -> ~IsZeroNum(v.s)
      [] v.k = "str" -> v.s # <<>>
      [] OTHER -> TRUE

\* v[key] for a value that is not null or undefined; the last of equal keys wins
Lookup(v, key) ==
    LET hits == { i \in 1..Len(v.keys) : v.keys[i] = key }
    IN  IF v.k = "obj" /\ hits # {}
        THEN v.items[CHOOSE i \in hits : \A j \in hits : j <= i]
        ELSE Undefined

-----------------------------------------------------------------------------
(* tryParsePubMed *)

FenceAt(s, i) == At(s, i, Backtick) /\ At(s, i + 1, Backtick) /\ At(s, i + 2, Backtick)

\* index of the first ``` at or after index i, 0 when there is none
NextFence(s, i) ==
    IF \E k \in i..Len(s) : FenceAt(s, k)
    THEN CHOOSE k \in i..Len(s) : FenceAt(s, k) /\ \A j \in i..(k - 1) : ~FenceAt(s, j)
    ELSE 0

NoMatch == [found |-> FALSE, text |-> <<>>]
Match(t) == [found |-> TRUE, text |-> t]

\* the regular expression tried with its opening ``` at index i: the tag
\* (?:json)? is taken when it is there and given up when the rest then fails;
\* \s* takes all the whitespace; the lazy group ends at the first ``` that follows
CodeBlockAt(s, i) ==
    LET a == i + 3
        b1 == SkipReWs(s, a + 4)
        c1 == NextFence(s, b1)
        b0 == SkipReWs(s, a)
        c0 == NextFence(s, b0)
    IN  IF StartsWith(s, a, <<"j", "s", "o", "n">>) /\ c1 # 0
        THEN Match(SubSeq(s, b1, c1 - 1))
        ELSE IF c0 # 0 THEN Match(SubSeq(s, b0, c0 - 1))
        ELSE NoMatch

\* str.match(/```(?:json)?\s*([\s\S]*?)```/): the leftmost match; text is group 1
MatchCodeBlockNever(s) == NoMatch

MatchCodeBlock(s) ==
    LET starts == { i \in 1..Len(s) : FenceAt(s, i) /\ CodeBlockAt(s, i).found }
    IN  IF starts = {} THEN NoMatch
        ELSE CodeBlockAt(s, CHOOSE i \in starts : \A j \in starts : i <= j)

\* index of the first c in s, 0 when there is none
FirstIndex(s, c) ==
    LET hits == { i \in 1..Len(s) : s[i] = c }
    IN  IF hits = {} THEN 0 ELSE CHOOSE i \in hits : \A j \in hits : i <= j

\* index of the last c in s, 0 when there is none
LastIndex(s, c) ==
    LET hits == { i \in 1..Len(s) : s[i] = c }
    IN  IF hits = {} THEN 0 ELSE CHOOSE i \in hits : \A j \in hits : j <= i

\* str.match(/\{[\s\S]*\}/): from the first "{" to the last "}" after it
MatchBraces(s) ==
    LET i == FirstIndex(s, "{")
        j == LastIndex(s, "}")
    IN  IF i # 0 /\ j > i THEN Match(SubSeq(s, i, j)) ELSE NoMatch

\* a content: a string (its characters in text) or a value of another type
StrContent(t) == [type |-> "string", text |-> t]

NullParse == [isNull |-> TRUE, data |-> Undefined]

tryParsePubMed(c) ==
    IF c.type # "string" THEN NullParse
    ELSE
        LET str0 == Trim(c.text)
            codeBlock == MatchCodeBlock(str0)
            str == IF codeBlock.found THEN Trim(codeBlock.text) ELSE str0
            jsonMatch == MatchBraces(str)
            parsed == JsonParse(jsonMatch.text)
            results == Lookup(parsed.val, <<"r", "e", "s", "u", "l", "t", "s">>)
        IN  IF ~jsonMatch.found THEN NullParse
            ELSE IF ~parsed.ok THEN NullParse
            ELSE IF Truthy(results) /\ results.k = "arr"
                 THEN [isNull |-> FALSE, data |-> parsed.val]
            ELSE NullParse

-----------------------------------------------------------------------------
(* MessageContent *)

Untitled == <<"U", "n", "t", "i", "t", "l", "e", "d">>

NotRendered == [kind |-> "none", text |-> <<>>, total |-> Undefined,
                query |-> Undefined, cards |-> <<>>]

\* a || b
JsOr(a, b) == IF Truthy(a) THEN a ELSE b

\* reading a property of null throws a TypeError
Throws(r) == r.k \in {"null", "undefined"}

\* one <article>: the title shown, the links' href, the optional lines
Card(r) ==
    [ title    |-> JsOr(Lookup(r, <<"t", "i", "t", "l", "e">>), JStr(Untitled)),
      url      |-> Lookup(r, <<"u", "r", "l">>),
      authors  |-> Lookup(r, <<"a", "u", "t", "h", "o", "r", "s">>),
      citation |-> Lookup(r, <<"j", "o", "u", "r", "n", "a", "l", "_", "c", "i", "t", "a", "t", "i", "o", "n">>),
      snippet  |-> Lookup(r, <<"s", "n", "i", "p", "p", "e", "t">>) ]

\* what MessageContent returns for content c once tryParsePubMed gave p
RenderOutcome(c, p) ==
    IF p.isNull
    THEN [NotRendered EXCEPT !.kind = "text", !.text = c.text]
    ELSE
        LET results == Lookup(p.data, <<"r", "e", "s", "u", "l", "t", "s">>).items
        IN  IF \E i \in 1..Len(results) : Throws(results[i])
            THEN [NotRendered EXCEPT !.kind = "throw"]
            ELSE [ kind  |-> "pubmed",
                   text  |-> <<>>,
                   total |-> Lookup(p.data, <<"t", "o", "t", "a", "l", "_", "r", "e", "s", "u", "l", "t", "s">>),
                   query |-> Lookup(p.data, <<"q", "u", "e", "r", "y">>),
                   cards |-> [i \in 1..Len(results) |-> Card(results[i])] ]

\* React calls MessageContent with a message's content
Render ==
    /\ rendered.kind = "none"
    /\ pubmed' = tryParsePubMed(content)
    /\ rendered' = RenderOutcome(content, pubmed')
    /\ UNCHANGED content

-----------------------------------------------------------------------------
(* Contents rendered *)

SegFence == <<Backtick,Backtick,Backtick>>
SegFenceJson == <<Backtick,Backtick,Backtick,"j","s","o","n","\n">>
SegEmptyResults == <<"{","\"","r","e","s","u","l","t","s","\"",":","[","]","}">>
SegNullEntry == <<"{","\"","r","e","s","u","l","t","s","\"",":","[","n","u","l","l","]","}">>
SegTwoResults == <<"{","\"","t","o","t","a","l","_","r","e","s","u","l","t","s","\"",":","2",",","\"","r","e","s","u","l","t","s","\"",":","[","{","\"","t","i","t","l","e","\"",":","\"","A","\"",",","\"","u","r","l","\"",":","\"","x","\"","}",",","{","\"","u","r","l","\"",":","\"","y","\"","}","]","}">>
SegResultsObject == <<"{","\"","r","e","s","u","l","t","s","\"",":","{","}","}">>
SegStringEntry == <<"{","\"","r","e","s","u","l","t","s","\"",":","[","\"","A","\"","]","}">>
\* {"results":[{"title":"caf\u00e9","url":"u"},{"title":1e-400}]}
SegEscaped == <<"{","\"","r","e","s","u","l","t","s","\"",":","[","{","\"","t","i","t","l","e","\"",":","\"","c","a","f","\\","u","0","0","e","9","\"",",","\"","u","r","l","\"",":","\"","u","\"","}",",","{","\"","t","i","t","l","e","\"",":","1","e","-","4","0","0","}","]","}">>

Segments ==
    { SegFence, SegFenceJson, SegEmptyResults, SegNullEntry, SegTwoResults,
      SegResultsObject, SegStringEntry, SegEscaped, <<"{">>, <<"}">>,
      <<"n","o","t"," ","j","s","o","n">>, <<" ">>, <<"\f">> }

RECURSIVE Concat(_)
Concat(parts) == IF parts = <<>> THEN <<>> ELSE Head(parts) \o Concat(Tail(parts))

Contents ==
    { [type |-> "number", text |-> <<"7">>], [type |-> "null", text |-> <<>>] }
    \cup { StrContent(Concat(parts)) :
             parts \in UNION { [1..n -> Segments] : n \in 0..MaxSegs } }

-----------------------------------------------------------------------------
(* Specification of the conversation controller *)

Init ==
    /\ view \in {"A", "B"}
    /\ messages = InitMessages(view)
    /\ input = <<>>
    /\ loading = FALSE
    /\ error = ""
    /\ pending = {}
    /\ nreq = 0
    /\ lastMut = 0
    /\ event = NoEvent
    /\ content = StrContent(<<>>)
    /\ pubmed = NullParse
    /\ rendered = NotRendered

Next ==
    \/ \E v \in InputTexts : Type(v) /\ UNCHANGED rndVars
    \/ KeyEnter /\ UNCHANGED rndVars
    \/ ClickSend /\ UNCHANGED rndVars
    \/ \E s \in SUGGESTIONS : ClickChip(s) /\ UNCHANGED rndVars
    \/ \E p \in pending : FetchReject(p) /\ UNCHANGED rndVars
    \/ \E p \in pending, st \in Statuses : FetchResolve(p, st) /\ UNCHANGED rndVars
    \/ \E p \in pending, b \in Bodies : BodyRead(p, b) /\ UNCHANGED rndVars

Spec == Init /\ [][Next]_vars

-----------------------------------------------------------------------------
(* Specification of the content renderer: one MessageContent per content *)

InitRender ==
    /\ view = "A"
    /\ messages = InitMessages(view)
    /\ input = <<>>
    /\ loading = FALSE
    /\ error = ""
    /\ pending = {}
    /\ nreq = 0
    /\ lastMut = 0
    /\ event = NoEvent
    /\ content \in Contents
    /\ pubmed = NullParse
    /\ rendered = NotRendered

NextRender == Render /\ UNCHANGED ctlVars

SpecRender == InitRender /\ [][NextRender]_vars

-----------------------------------------------------------------------------
(* Properties of the conversation controller *)

IsSendEvent(e) == e.kind \in {"enter", "click", "chip"}

\* the effective text of the send call that event e records, given the input
\* it found: the explicit string argument if there is one, else the input, trimmed
CalledText(e, inp) == IF e.arg.isString THEN Trim(e.arg.text) ELSE Trim(inp)

UserMsg(t) == [role |-> "user", content |-> t]

\* C1: rollback is exact in both views: when the request of an accepted send
\* fails (fetch or body read rejects, or the status is not a success), the message
\* list after completion equals the list present when the send was accepted.
C1_RollbackExact ==
    [][ (event'.kind = "settle" /\ event'.failed
            /\ (event'.resp.type = "reject" \/ event'.resp.body.kind = "unparsable"
                \/ ~Ok(event'.resp.status)))
        => \A p \in pending : p.id = event'.id => messages' = p.messages ]_vars

\* C2: after a success status the message list is exactly the server's list; and
\* when the success body carries no list, whatever else it is, the message list is
\* the optimistic list, no error is set and nothing is rolled back.
C2_SuccessReplaceOrEcho ==
    [][ (event'.kind = "settle" /\ event'.resp.type = "resp" /\ Ok(event'.resp.status))
        => \A p \in pending : p.id = event'.id =>
              IF event'.resp.body.kind = "object" /\ event'.resp.body.hasMessages
              THEN messages' = event'.resp.body.messages
              ELSE /\ messages' = p.nextMessages
                   /\ error' = ""
                   /\ ~event'.failed ]_vars

\* C3: send is a no-op whenever the effective text is empty or whitespace-only, or
\* a request is in flight: no request is issued and messages, input, loading and
\* error are unchanged.
C3_NoOpSend ==
    [][ (IsSendEvent(event') /\ (CalledText(event', input) = <<>> \/ loading))
        => /\ ~event'.accepted
           /\ UNCHANGED <<messages, input, loading, error, nreq, pending>> ]_vars

\* a send was called with non-empty text while a request was in flight, and rejected
C3_Witness ==
    /\ event.kind = "enter" /\ ~event.accepted
    /\ loading /\ Trim(input) # <<>>

\* C4: every accepted send issues exactly one request, whose messages are the
\* local list plus the new user message, in order, without the entries whose role
\* is neither user nor assistant; those entries stay in the local list. Nothing
\* else issues a request.
C4_OneRequestFiltered ==
    [][ /\ (IsSendEvent(event') /\ event'.accepted) =>
             LET next == Append(messages, UserMsg(CalledText(event', input)))
             IN  /\ nreq' = nreq + 1
                 /\ messages' = next
                 /\ \E p \in pending' :
                        /\ p \notin pending
                        /\ pending' = pending \cup {p}
                        /\ p.phase = "fetch"
                        /\ p.body = SelectSeq(next, LAMBDA m : m.role \in {"user", "assistant"})
        /\ ~(IsSendEvent(event') /\ event'.accepted) =>
             /\ nreq' = nreq
             /\ \A q \in pending' : \E p \in pending : p.id = q.id /\ p.body = q.body ]_vars

\* a request is out whose body leaves out an entry of the local list
C4_Witness ==
    /\ IsSendEvent(event) /\ event.accepted
    /\ \E p \in pending : Len(p.body) < Len(messages) /\ p.nextMessages = messages

\* C5: two sends never interleave: at most one request is outstanding, and while
\* a send is suspended the last write to the message list is its own.
C5_Serialized ==
    /\ Cardinality(pending) <= 1
    /\ \A p \in pending : lastMut = p.id /\ messages = p.nextMessages

\* a later send attempt was rejected while the body of a response was awaited
C5_Witness ==
    /\ IsSendEvent(event) /\ ~event.accepted /\ Trim(input) # <<>>
    /\ nreq >= 2 /\ \E p \in pending : p.phase = "json"

\* C6: loading is true exactly while a request is outstanding (its response or
\* the body of its response still awaited); only the completion of the request
\* clears it, whatever the outcome; until then every send is rejected.
C6_LoadingFlag ==
    /\ [](loading <=> pending # {})
    /\ [][ loading => /\ (~loading' <=> event'.kind = "settle")
                      /\ (IsSendEvent(event') => ~event'.accepted) ]_vars

\* a request has failed and the flag is clear again
C6_Witness ==
    /\ event.kind = "settle" /\ event.failed
    /\ ~loading /\ pending = {}

\* C7: an accepted send clears the error, sets loading, appends exactly one user
\* message whose content is the trimmed effective text (the preset text for a
\* suggestion chip, not the input), and empties the input.
C7_AcceptedSendEffects ==
    [][ (IsSendEvent(event') /\ event'.accepted) =>
          LET t == IF event'.kind = "chip" THEN Trim(event'.arg.text) ELSE Trim(input)
          IN  /\ error' = ""
              /\ loading'
              /\ messages' = messages \o <<UserMsg(t)>>
              /\ input' = <<>> ]_vars

\* a suggestion chip was sent
C7_Witness ==
    /\ event.kind = "chip" /\ event.accepted
    /\ messages = <<UserMsg(S2)>> /\ input = <<>> /\ loading /\ error = ""

\* C8: every response with a non-success status takes the failure path (error
\* non-empty, list not replaced), and the error shown is the body's message if
\* non-empty, else the body's error if non-empty, else "HTTP <status>".
C8_FailureStatusError ==
    [][ (event'.kind = "settle" /\ event'.resp.type = "resp" /\ ~Ok(event'.resp.status))
        => LET b == event'.resp.body
               hasMsg == b.kind = "object" /\ b.message # ""
               hasErr == b.kind = "object" /\ b.error # ""
           IN  /\ error' # ""
               /\ messages' \in {messages, SliceDropLast(messages)}
               /\ error' = IF hasMsg THEN b.message
                           ELSE IF hasErr THEN b.error
                           ELSE "HTTP " \o ToString(event'.resp.status) ]_vars

-----------------------------------------------------------------------------
(* Properties of the content renderer *)

ResultsKey == <<"r", "e", "s", "u", "l", "t", "s">>

\* C9: the renderer never throws and never renders partially: rendering ends
\* either in the plain text of the content or in a structured result set with
\* one card per results entry, in the order received.
C9_RenderNeverThrows ==
    rendered.kind # "none" =>
        \/ rendered.kind = "text" /\ rendered.text = content.text
        \/ /\ rendered.kind = "pubmed"
           /\ ~pubmed.isNull
           /\ LET results == Lookup(pubmed.data, ResultsKey).items
              IN  /\ Len(rendered.cards) = Len(results)
                  /\ \A i \in 1..Len(results) :
                        rendered.cards[i].url = Lookup(results[i], <<"u", "r", "l">>)

\* the text contains a fenced block: a ``` and, after it, another ```
RefFenced(t) ==
    \E i, j \in 1..Len(t) : FenceAt(t, i) /\ FenceAt(t, j) /\ j >= i + 3

\* what lies between the fences of the first fenced block (a tag after the
\* opening fence holds no brace, so it is left in)
RefInterior(t) ==
    LET open == CHOOSE i \in 1..Len(t) :
                    /\ FenceAt(t, i) /\ \E j \in (i + 3)..Len(t) : FenceAt(t, j)
                    /\ \A k \in 1..(i - 1) :
                          ~(FenceAt(t, k) /\ \E j \in (k + 3)..Len(t) : FenceAt(t, j))
        close == CHOOSE j \in (open + 3)..Len(t) :
                    FenceAt(t, j) /\ \A k \in (open + 3)..(j - 1) : ~FenceAt(t, k)
    IN  SubSeq(t, open + 3, close - 1)

\* the text the payload is looked for in
RefUsed(t) == IF RefFenced(t) THEN RefInterior(t) ELSE t

\* u has an opening brace with a closing brace after it
RefHasBraces(u) == \E i, j \in 1..Len(u) : i < j /\ u[i] = "{" /\ u[j] = "}"

\* from the first opening brace of u to its last closing brace
RefBraces(u) ==
    LET i == CHOOSE i \in 1..Len(u) : u[i] = "{" /\ \A k \in 1..(i - 1) : u[k] # "{"
        j == CHOOSE j \in 1..Len(u) : u[j] = "}" /\ \A k \in (j + 1)..Len(u) : u[k] # "}"
    IN  SubSeq(u, i, j)

\* u holds a payload: its brace substring parses and has a results array
RefPayload(u) ==
    /\ RefHasBraces(u)
    /\ JsonParse(RefBraces(u)).ok
    /\ Lookup(JsonParse(RefBraces(u)).val, ResultsKey).k = "arr"

\* the five-step decision procedure
RefStructured(c) == c.type = "string" /\ RefPayload(RefUsed(Trim(c.text)))

\* C10: a content is rendered as a structured result set exactly when it is text
\* and the brace substring of the first fenced block's interior (of the whole
\* trimmed text when there is no fenced block) parses and has a results array;
\* the data rendered is that substring's, never a payload outside the block.
C10_DecisionProcedure ==
    rendered.kind # "none" =>
        /\ ~pubmed.isNull <=> RefStructured(content)
        /\ ~pubmed.isNull =>
              pubmed.data = JsonParse(RefBraces(RefUsed(Trim(content.text)))).val

\* a content with a payload outside its first fenced block and none inside was
\* rendered as plain text
C10_Witness ==
    /\ rendered.kind = "text"
    /\ content.type = "string"
    /\ RefFenced(Trim(content.text))
    /\ RefPayload(Trim(content.text))
    /\ ~RefPayload(RefInterior(Trim(content.text)))

====
